---- MODULE Spec2Model ----
(***************************************************************************)
(* Model of app.py (src/jjjj.py): the model bootstrap at module level, the *)
(* CSV ledger helpers ensure_storage / load_storage / save_entry, and the  *)
(* pure helpers compute_total, get_week_df and anomaly_iqr.                *)
(*                                                                         *)
(* Cell values are tagged tuples so that values of different kinds can be  *)
(* compared:  <<"nan">>  is pandas' NaN / NaT,  <<"num", n>>  a number,    *)
(* <<"date", d>>  a Timestamp at midnight of day d,  <<"str", s>>  a       *)
(* string.  The storage file holds TEXT: to_csv formats every cell and     *)
(* read_csv parses every cell back.                                        *)
(***************************************************************************)
EXTENDS Integers, Sequences, FiniteSets, TLC

VARIABLES
    pc,            \* position of the script: line 24, 25, 33, 201, or after it
    model_file,    \* aidan.joblib on disk: "absent", "good" or "bad"
    model_loaded,  \* the module-level flag (line 35 / 38); "unset" before
    file,          \* expenses_storage.csv: [exists, header, lines]
    df_storage,    \* the DataFrame the last load_storage() returned
    last,          \* the last helper call: [op, row, raised]
    wr,            \* save_entry in progress: [pc, df, pos] (crash model)
    wk,            \* get_week_df call: [pc, df, end_date, days, out]
    an             \* anomaly_iqr call: [pc, series, k, out]

vars == <<pc, model_file, model_loaded, file, df_storage, last, wr, wk, an>>

-----------------------------------------------------------------------------
(* Bounds of the model *)

\* entries the ledger may hold before save_entry is no longer offered
MaxEntries == 2
\* longest ledger handed to get_week_df
MaxWeekLen == 3
\* longest series handed to anomaly_iqr (besides the two documented ones)
MaxSeriesLen == 5

-----------------------------------------------------------------------------
(* Schema: lines 43-46 and 55 *)

CATEGORIES ==
    <<"Rent", "Loan_Repayment", "Insurance", "Groceries", "Transport",
      "Eating_Out", "Entertainment", "Utilities", "Healthcare", "Education",
      "Miscellaneous">>

cols ==
    <<"Fake_date", "Income", "Age", "Dependents", "Occupation", "City_Tier">>
    \o CATEGORIES \o <<"Total_Expenses", "Disposable_Income">>

Range(s) == { s[i] : i \in DOMAIN s }

CategorySet == Range(CATEGORIES)
ColSet == Range(cols)

NaN == <<"nan">>
None == <<"none">>
Num(n) == <<"num", n>>
Date(d) == <<"date", d>>
Str(s) == <<"str", s>>
IsNum(v) == v[1] = "num"
IsDate(v) == v[1] = "date"

-----------------------------------------------------------------------------
(* Text of the CSV file: DataFrame.to_csv (line 56, 66), pd.read_csv (60) *)

\* the numbers and days that occur in the model's rows
NumRange == -2 .. 8
DayRange == 1 .. 9

\* a midnight Timestamp is written date-only, ISO format
FormatDate(d) == "2024-01-0" \o ToString(d)

\* a column that holds a NaN is float64, and to_csv writes its numbers as
\* floats ("2.0"); an int64 column is written as integers ("2")
FormatCell(v, isFloat) ==
    CASE v = NaN -> ""
      [] IsNum(v) -> IF isFloat THEN ToString(v[2]) \o ".0" ELSE ToString(v[2])
      [] IsDate(v) -> FormatDate(v[2])
      [] OTHER -> v[2]

HasNaN(df, c) == \E i \in DOMAIN df : df[i][c] = NaN

\* read_csv's default na_values that a vocabulary string could collide with
NA_VALUES == {"", "NA", "N/A", "NULL", "NaN", "None", "nan", "null"}

ParseCell(c, text) ==
    IF text \in NA_VALUES THEN NaN
    ELSE IF c = "Fake_date" /\ \E d \in DayRange : FormatDate(d) = text
         THEN Date(CHOOSE d \in DayRange : FormatDate(d) = text)
    ELSE IF \E n \in NumRange : text \in {ToString(n), ToString(n) \o ".0"}
         THEN Num(CHOOSE n \in NumRange :
                    text \in {ToString(n), ToString(n) \o ".0"})
    ELSE Str(text)

NoFile == [exists |-> FALSE, header |-> "none", lines |-> <<>>]

\* df.to_csv(STORAGE_FILE, index=False), run to completion
to_csv(df) ==
    [exists |-> TRUE, header |-> "full",
     lines |-> [i \in DOMAIN df |->
                   [c \in ColSet |-> FormatCell(df[i][c], HasNaN(df, c))]]]

\* read_csv raises on a 0-byte file (EmptyDataError) and on a header that
\* lacks the parse_dates column (ValueError)
Parseable(f) == f.exists /\ f.header = "full"

read_csv(f) ==
    [i \in DOMAIN f.lines |-> [c \in ColSet |-> ParseCell(c, f.lines[i][c])]]

-----------------------------------------------------------------------------
(* Helpers: lines 53-69 *)

\* ensure_storage without its os.path.exists test
ensure_storage_always(f) == to_csv(<<>>)

ensure_storage(f) ==
    IF ~f.exists THEN to_csv(<<>>) ELSE f

\* [file, raised, df]: the file after the call, whether read_csv raised, and
\* the DataFrame returned
load_storage(f) ==
    LET g == ensure_storage(f)
    IN  [file |-> g,
         raised |-> ~Parseable(g),
         df |-> IF Parseable(g) THEN read_csv(g) ELSE <<>>]

\* a concat with the operands swapped: the new row comes first
concat_swapped(df, row) ==
    <<[c \in ColSet |-> IF c \in DOMAIN row THEN row[c] ELSE NaN]>> \o df

\* pd.concat([df, pd.DataFrame([row])], ignore_index=True): the row's keys
\* are aligned to the columns; a key the dict lacks becomes NaN
concat(df, row) ==
    Append(df, [c \in ColSet |-> IF c \in DOMAIN row THEN row[c] ELSE NaN])

\* [file, raised]
save_entry(f, row) ==
    LET r == load_storage(f)
    IN  IF r.raised
        THEN [file |-> r.file, raised |-> TRUE]
        ELSE [file |-> to_csv(concat(r.df, row)), raised |-> FALSE]

RECURSIVE SumSeq(_)
SumSeq(s) == IF s = <<>> THEN 0 ELSE Head(s) + SumSeq(Tail(s))

\* sum([row.get(cat, 0) for cat in CATEGORIES]) on a dict of numbers
compute_total(row) ==
    SumSeq([i \in DOMAIN CATEGORIES |->
               IF CATEGORIES[i] \in DOMAIN row THEN row[CATEGORIES[i]][2] ELSE 0])

-----------------------------------------------------------------------------
(* Rows the entry form may submit (the caller of save_entry) *)

Absent == <<"absent">>

MkRow(full) == [c \in {k \in ColSet : full[k] # Absent} |-> full[c]]

BaseRow(d, rent) ==
    [c \in ColSet |->
        CASE c = "Fake_date" -> Date(d)
          [] c = "Income" -> Num(3)
          [] c = "Age" -> Num(8)
          [] c = "Dependents" -> Num(1)
          [] c = "Occupation" -> Str("Student")
          [] c = "City_Tier" -> Str("Tier_1")
          [] c = "Rent" -> rent
          [] c = "Groceries" -> Num(2)
          [] c \in {"Total_Expenses", "Disposable_Income"} -> Absent
          [] OTHER -> Num(0)]

WithTotals(b, total, disposable) ==
    [c \in DOMAIN b \cup {"Total_Expenses", "Disposable_Income"} |->
        IF c = "Total_Expenses" THEN Num(total)
        ELSE IF c = "Disposable_Income" THEN Num(disposable)
        ELSE b[c]]

\* the caller leaves the totals out, computes them with compute_total, or
\* passes a total of its own; Rent is left out, negative or positive
RowInputs ==
    UNION { LET b == MkRow(BaseRow(1, rent))
                t == compute_total(b)
            IN  {b, WithTotals(b, t, 3 - t), WithTotals(b, 4, -1)}
          : rent \in {Absent, Num(-1), Num(1)} }
    \cup { LET b == MkRow(BaseRow(2, Num(1)))
           IN  WithTotals(b, compute_total(b), 3 - compute_total(b)) }

NoRow == <<>>

-----------------------------------------------------------------------------
(* The script: module level, lines 24-38 and 201 *)

IdleWr == [pc |-> "idle", prior |-> NoFile, df |-> <<>>]
IdleWk == [pc |-> "none", df |-> <<>>, end_date |-> None, days |-> 0, today |-> 0,
           out |-> <<>>]
IdleAn == [pc |-> "none", series |-> <<>>, k2 |-> 0, out |-> <<>>]

Init ==
    /\ pc = "line24"
    /\ model_file \in {"absent", "good", "bad"}
    /\ model_loaded = "undefined"
    /\ file \in {NoFile, to_csv(<<>>)}
    /\ df_storage = <<>>
    /\ last = [op |-> "none", row |-> NoRow, raised |-> FALSE]
    /\ wr = IdleWr
    /\ wk = IdleWk
    /\ an = IdleAn

\* line 24: if not os.path.exists(MODEL_PATH)
CheckModelPath ==
    /\ pc = "line24"
    /\ pc' = IF model_file = "absent" THEN "line25" ELSE "line33"
    /\ UNCHANGED <<model_file, model_loaded, file, df_storage, last, wr, wk, an>>

\* lines 25-30: requests.get may raise (no network, DNS, timeout), answer
\* 200 with some content, or answer another status
RequestsGet ==
    /\ pc = "line25"
    /\ \E outcome \in {"raises", "200_good", "200_bad", "status_other"} :
         /\ pc' = IF outcome = "raises" THEN "aborted" ELSE "line33"
         /\ model_file' = CASE outcome = "200_good" -> "good"
                            [] outcome = "200_bad" -> "bad"
                            [] OTHER -> model_file
    /\ UNCHANGED <<model_loaded, file, df_storage, last, wr, wk, an>>

\* lines 33-38: joblib.load inside try/except
JoblibLoad ==
    /\ pc = "line33"
    /\ model_loaded' = IF model_file = "good" THEN "True" ELSE "False"
    /\ pc' = "line201"
    /\ UNCHANGED <<model_file, file, df_storage, last, wr, wk, an>>

\* line 201: df_storage = load_storage()
StartupLoadStorage ==
    /\ pc = "line201"
    /\ LET r == load_storage(file)
       IN  /\ file' = r.file
           /\ pc' = IF r.raised THEN "aborted" ELSE "ready"
           /\ df_storage' = IF r.raised THEN df_storage ELSE r.df
    /\ UNCHANGED <<model_file, model_loaded, last, wr, wk, an>>

-----------------------------------------------------------------------------
(* Helper calls made by the page once the script has passed line 201 *)

CallEnsureStorage ==
    /\ pc = "ready"
    /\ wr.pc = "idle"
    /\ file' = ensure_storage(file)
    /\ last' = [op |-> "ensure", row |-> NoRow, raised |-> FALSE]
    /\ UNCHANGED <<pc, model_file, model_loaded, df_storage, wr, wk, an>>

CallLoadStorage ==
    /\ pc = "ready"
    /\ wr.pc = "idle"
    /\ LET r == load_storage(file)
       IN  /\ file' = r.file
           /\ df_storage' = IF r.raised THEN df_storage ELSE r.df
           /\ last' = [op |-> "load", row |-> NoRow, raised |-> r.raised]
    /\ UNCHANGED <<pc, model_file, model_loaded, wr, wk, an>>

CallSaveEntry(row) ==
    /\ pc = "ready"
    /\ wr.pc = "idle"
    /\ Len(file.lines) < MaxEntries
    /\ LET r == save_entry(file, row)
       IN  /\ file' = r.file
           /\ last' = [op |-> "save", row |-> row, raised |-> r.raised]
    /\ UNCHANGED <<pc, model_file, model_loaded, df_storage, wr, wk, an>>

Next ==
    \/ CheckModelPath
    \/ RequestsGet
    \/ JoblibLoad
    \/ StartupLoadStorage
    \/ CallEnsureStorage
    \/ CallLoadStorage
    \/ \E row \in RowInputs : CallSaveEntry(row)

Spec == Init /\ [][Next]_vars

-----------------------------------------------------------------------------
(* Claims about the ledger and the script, checked under Spec *)

\* an amount of a stored entry, a missing (NaN) one counting as 0
Amount(e, c) == IF IsNum(e[c]) THEN e[c][2] ELSE 0

SumCategories(e) == SumSeq([i \in DOMAIN CATEGORIES |-> Amount(e, CATEGORIES[i])])

Monetary == CategorySet \cup {"Income"}

\* a submission with a date and an income, no negative amount, and totals
\* either left to the store or consistent with the category amounts
ValidEntry(row) ==
    /\ {"Fake_date", "Income"} \subseteq DOMAIN row
    /\ \A c \in Monetary \cap DOMAIN row : row[c][2] >= 0
    /\ "Total_Expenses" \in DOMAIN row =>
           row["Total_Expenses"] = Num(compute_total(row))
    /\ "Disposable_Income" \in DOMAIN row =>
           row["Disposable_Income"] = Num(row["Income"][2] - compute_total(row))

HasNegative(row) == \E c \in Monetary \cap DOMAIN row : row[c][2] < 0

InconsistentTotal(row) ==
    /\ "Total_Expenses" \in DOMAIN row
    /\ row["Total_Expenses"] # Num(compute_total(row))

Ledger(f) == load_storage(f).df

\* C1: after save_entry(e) of a valid entry, load_storage() returns a ledger
\* whose new entry equals e in every field e has, with Total_Expenses the sum
\* of e's category amounts and Disposable_Income = Income - that sum.
C1_RoundTripRecomputed ==
    (last.op = "save" /\ ~last.raised /\ ValidEntry(last.row)) =>
        LET df == Ledger(file)
            e == df[Len(df)]
            total == compute_total(last.row)
        IN  /\ Len(df) >= 1
            /\ \A c \in DOMAIN last.row \ {"Total_Expenses", "Disposable_Income"} :
                   e[c] = last.row[c]
            /\ e["Total_Expenses"] = Num(total)
            /\ e["Disposable_Income"] = Num(last.row["Income"][2] - total)

\* C2: a save_entry call whose row has a negative monetary amount or a
\* Total_Expenses different from the sum of its categories leaves the
\* persisted ledger exactly as it was (the row is rejected before any write).
C2_InvalidRejected ==
    [][(last'.op = "save" /\ (HasNegative(last'.row) \/ InconsistentTotal(last'.row)))
          => (file' = file /\ last'.raised)]_vars

\* C3: in every reachable state every stored entry has Total_Expenses equal
\* to the sum of its 11 category amounts, a missing category counting as 0.
C3_TotalInvariant ==
    Parseable(file) =>
        \A i \in DOMAIN Ledger(file) :
            Ledger(file)[i]["Total_Expenses"] = Num(SumCategories(Ledger(file)[i]))

\* C5: every save_entry call makes the loaded ledger one entry longer and
\* leaves each earlier entry unchanged at its position.
C5_AppendOnly ==
    [][last'.op = "save" =>
          LET before == Ledger(file)
              after == Ledger(file')
          IN  /\ Len(after) = Len(before) + 1
              /\ \A i \in DOMAIN before : after[i] = before[i]]_vars

C5_Witness ==
    /\ last.op = "save"
    /\ Len(Ledger(file)) = 2
    /\ Ledger(file)[1]["Fake_date"] = Ledger(file)[2]["Fake_date"]
    /\ Ledger(file)[1] # Ledger(file)[2]

\* C7: when the model artifact is unavailable the script is never aborted
\* before the model flag is set and the ledger is loaded.
C7_NoAbortWithoutModel ==
    ~(pc = "aborted" /\ model_file # "good")

\* C10: a step that runs ensure_storage (directly, or through load_storage at
\* line 201 or later) creates a header-only file when there was none, and
\* leaves an existing file exactly as it was.
C10_EnsureStorage ==
    [][(pc = "line201" \/ last'.op \in {"ensure", "load"}) =>
          IF file.exists
          THEN file' = file
          ELSE file'.exists /\ file'.header = "full" /\ file'.lines = <<>>]_vars

C10_Witness ==
    /\ last.op \in {"ensure", "load"}
    /\ Len(file.lines) = 2

-----------------------------------------------------------------------------
(* save_entry step by step, with the process dying in between (line 64-66) *)
(* to_csv opens the file for writing, which truncates it, then writes the  *)
(* header line and the rows, then closes.                                  *)

InitCrash ==
    /\ pc = "line201"
    /\ model_file \in {"absent", "good", "bad"}
    /\ model_loaded = IF model_file = "good" THEN "True" ELSE "False"
    /\ file \in {NoFile, to_csv(<<>>)}
    /\ df_storage = <<>>
    /\ last = [op |-> "none", row |-> NoRow, raised |-> FALSE]
    /\ wr = IdleWr
    /\ wk = IdleWk
    /\ an = IdleAn

\* lines 64-65: df = load_storage(); df = pd.concat(...)
SaveBegin(row) ==
    /\ pc = "ready"
    /\ wr.pc = "idle"
    /\ Len(file.lines) < MaxEntries
    /\ LET r == load_storage(file)
       IN  /\ file' = r.file
           /\ wr' = IF r.raised THEN wr
                    ELSE [pc |-> "open", prior |-> r.file, df |-> concat(r.df, row)]
           /\ last' = [op |-> "save", row |-> row, raised |-> r.raised]
    /\ UNCHANGED <<pc, model_file, model_loaded, df_storage, wk, an>>

\* line 66, open(STORAGE_FILE, "w"): the file is now 0 bytes long
SaveOpen ==
    /\ wr.pc = "open"
    /\ file' = [exists |-> TRUE, header |-> "none", lines |-> <<>>]
    /\ wr' = [wr EXCEPT !.pc = "write"]
    /\ UNCHANGED <<pc, model_file, model_loaded, df_storage, last, wk, an>>

\* line 66, the writes: the header line, then one row after the other
SaveWrite ==
    /\ wr.pc = "write"
    /\ \/ /\ file.header = "none"
          /\ file' = [file EXCEPT !.header = "full"]
       \/ /\ file.header = "full"
          /\ Len(file.lines) < Len(wr.df)
          /\ file' = [file EXCEPT !.lines =
                         SubSeq(to_csv(wr.df).lines, 1, Len(file.lines) + 1)]
    /\ UNCHANGED <<pc, model_file, model_loaded, df_storage, last, wr, wk, an>>

\* line 66, the close after the last row
SaveClose ==
    /\ wr.pc = "write"
    /\ file.header = "full"
    /\ Len(file.lines) = Len(wr.df)
    /\ wr' = [wr EXCEPT !.pc = "idle"]
    /\ UNCHANGED <<pc, model_file, model_loaded, file, df_storage, last, wk, an>>

\* The process dies (or the write fails) inside save_entry.  What is on disk
\* stays; a header line being written may be cut short.  The script is then
\* started again and runs up to line 201.
Crash ==
    /\ wr.pc \in {"open", "write"}
    /\ \/ file' = file
       \/ /\ wr.pc = "write"
          /\ file.header = "none"
          /\ file' = [file EXCEPT !.header = "partial"]
    /\ wr' = [wr EXCEPT !.pc = "idle"]
    /\ last' = [op |-> "crash", row |-> last.row, raised |-> TRUE]
    /\ pc' = "line201"
    /\ UNCHANGED <<model_file, model_loaded, df_storage, wk, an>>

NextCrash ==
    \/ StartupLoadStorage
    \/ CallLoadStorage
    \/ \E row \in RowInputs : SaveBegin(row)
    \/ SaveOpen
    \/ SaveWrite
    \/ SaveClose
    \/ Crash

SpecCrash == InitCrash /\ [][NextCrash]_vars

\* C4: after save_entry was interrupted the storage file holds the complete
\* prior ledger or the complete prior ledger plus the new entry, and
\* load_storage can parse it.
C4_InterruptedSaveKeepsLedger ==
    last.op = "crash" =>
        /\ Parseable(file)
        /\ file \in {wr.prior, to_csv(wr.df)}

-----------------------------------------------------------------------------
(* get_week_df: lines 71-78.  Only the Fake_date column is read; the rows   *)
(* handed to it here carry one more column to tell entries of a day apart.  *)

\* pandas compares NaT with anything to False
Ge(a, b) == IsDate(a) /\ IsDate(b) /\ a[2] >= b[2]
Le(a, b) == IsDate(a) /\ IsDate(b) /\ a[2] <= b[2]

RECURSIVE Filter(_, _)
Filter(df, mask) ==
    IF df = <<>> THEN <<>>
    ELSE (IF Head(mask) THEN <<Head(df)>> ELSE <<>>) \o Filter(Tail(df), Tail(mask))

\* get_week_df with start = end_date - days
get_week_df_wide(df, end_date, days, today) ==
    IF df = <<>> THEN df
    ELSE LET end == IF end_date = None THEN Date(today) ELSE end_date
             start == Date(end[2] - days)
             mask == [i \in DOMAIN df |->
                         Ge(df[i]["Fake_date"], start) /\ Le(df[i]["Fake_date"], end)]
         IN  Filter(df, mask)

get_week_df(df, end_date, days, today) ==
    IF df = <<>> THEN df
    ELSE LET end == IF end_date = None THEN Date(today) ELSE end_date
             start == Date(end[2] - (days - 1))
             mask == [i \in DOMAIN df |->
                         Ge(df[i]["Fake_date"], start) /\ Le(df[i]["Fake_date"], end)]
         IN  Filter(df, mask)

\* days of the ledgers handed to get_week_df
WeekDays == 1 .. 3

WeekRows == { [Fake_date |-> d, Rent |-> Num(r)] :
                 d \in {Date(x) : x \in WeekDays} \cup {NaN}, r \in {10, 15} }

RECURSIVE SeqsUpTo(_, _)
SeqsUpTo(S, n) ==
    IF n = 0 THEN {<<>>}
    ELSE LET shorter == SeqsUpTo(S, n - 1)
         IN  shorter \cup { Append(q, x) : q \in {t \in shorter : Len(t) = n - 1}, x \in S }

\* read_csv gives the Fake_date column the datetime64 dtype that line 77
\* compares with a Timestamp when the ledger is empty or a date was parsed
DatetimeColumn(df) == df = <<>> \/ \E i \in DOMAIN df : IsDate(df[i]["Fake_date"])

\* the ledger of the documented case: entries dated D-10, D-8, D-3 and D
DocumentedLedger ==
    [i \in 1 .. 4 |-> [Fake_date |-> Date(<<1, 3, 8, 11>>[i]), Rent |-> Num(10)]]

\* the default of the days parameter (line 71)
DefaultDays == 7

InitWeek ==
    /\ pc = "ready"
    /\ model_file = "good"
    /\ model_loaded = "True"
    /\ file = to_csv(<<>>)
    /\ df_storage = <<>>
    /\ last = [op |-> "none", row |-> NoRow, raised |-> FALSE]
    /\ wr = IdleWr
    /\ an = IdleAn
    /\ \/ \E df \in {q \in SeqsUpTo(WeekRows, MaxWeekLen) : DatetimeColumn(q)},
             e \in {Date(x) : x \in WeekDays} \cup {None},
             days \in {0, 1, 2, DefaultDays} :
               \E today \in (IF e = None THEN {2, 3} ELSE {2}) :
                   wk = [pc |-> "called", df |-> df, end_date |-> e, days |-> days,
                         today |-> today, out |-> <<>>]
       \/ wk = [pc |-> "called", df |-> DocumentedLedger, end_date |-> Date(11),
                days |-> DefaultDays, today |-> 2, out |-> <<>>]

CallGetWeekDf ==
    /\ wk.pc = "called"
    /\ wk' = [wk EXCEPT !.pc = "returned",
                        !.out = get_week_df(wk.df, wk.end_date, wk.days, wk.today)]
    /\ UNCHANGED <<pc, model_file, model_loaded, file, df_storage, last, wr, an>>

NextWeek == CallGetWeekDf

SpecWeek == InitWeek /\ [][NextWeek]_vars

Count(q, x) == Cardinality({i \in DOMAIN q : q[i] = x})

WeekEnd == IF wk.end_date = None THEN wk.today ELSE wk.end_date[2]

InWindow(r) ==
    /\ IsDate(r["Fake_date"])
    /\ WeekEnd - (wk.days - 1) <= r["Fake_date"][2]
    /\ r["Fake_date"][2] <= WeekEnd

\* C6: get_week_df returns exactly the entries dated within
\* [end_date-(days-1), end_date], each as often as the ledger holds it and
\* none from outside; nothing in range, or an empty ledger, gives an empty
\* result.  Dated D-10, D-8, D-3, D with days = 7 it returns D-3 and D.
C6_WindowExact ==
    wk.pc = "returned" =>
        /\ \A r \in Range(wk.df) \cup Range(wk.out) :
               Count(wk.out, r) = IF InWindow(r) THEN Count(wk.df, r) ELSE 0
        /\ (\A i \in DOMAIN wk.df : ~InWindow(wk.df[i])) => wk.out = <<>>
        /\ wk.df = DocumentedLedger =>
               [i \in DOMAIN wk.out |-> wk.out[i]["Fake_date"]] = <<Date(8), Date(11)>>

C6_Witness ==
    /\ wk.pc = "returned"
    /\ Len(wk.df) = 3
    /\ Len(wk.out) = 2
    /\ wk.out[1]["Fake_date"] = wk.out[2]["Fake_date"]
    /\ wk.out[1] # wk.out[2]
    /\ wk.out[1]["Fake_date"] = Date(WeekEnd - (wk.days - 1))
    /\ wk.days = 2

-----------------------------------------------------------------------------
(* anomaly_iqr: lines 80-88.  Quartiles are kept in quarters (q4 = 4*q) and *)
(* k in halves (k2 = 2*k), so that every comparison is on integers.         *)

RECURSIVE Insert(_, _)
Insert(x, sorted) ==
    IF sorted = <<>> THEN <<x>>
    ELSE IF x <= Head(sorted) THEN <<x>> \o sorted
    ELSE <<Head(sorted)>> \o Insert(x, Tail(sorted))

RECURSIVE SortedValues(_)
\* the non-NaN values of a series, ascending (Series.quantile skips NaN)
SortedValues(series) ==
    IF series = <<>> THEN <<>>
    ELSE IF IsNum(Head(series))
         THEN Insert(Head(series)[2], SortedValues(Tail(series)))
         ELSE SortedValues(Tail(series))

\* series.quantile(p4 / 4), linear interpolation, times 4; NaN when there is
\* no value
quantile(series, p4) ==
    LET x == SortedValues(series)
        n == Len(x)
        j == ((n - 1) * p4) \div 4
        r == ((n - 1) * p4) % 4
    IN  IF n = 0 THEN NaN
        ELSE IF r = 0 THEN Num(4 * x[j + 1])
        ELSE Num(4 * x[j + 1] + r * (x[j + 2] - x[j + 1]))

\* the default of k (line 80), in halves: k = 1.5
DefaultK2 == 3

\* anomaly_iqr flagging a value that lies on a fence
anomaly_iqr_inclusive(series, k2) ==
    LET q1 == quantile(series, 1)
        q3 == quantile(series, 3)
    IN  IF q1 = NaN \/ q3 = NaN \/ q3[2] - q1[2] = 0
        THEN [i \in DOMAIN series |-> FALSE]
        ELSE LET iqr == q3[2] - q1[2]
                 lower8 == 2 * q1[2] - k2 * iqr
                 upper8 == 2 * q3[2] + k2 * iqr
             IN  [i \in DOMAIN series |->
                     /\ IsNum(series[i])
                     /\ (8 * series[i][2] <= lower8 \/ 8 * series[i][2] >= upper8)]

\* anomaly_iqr without the iqr == 0 test of line 84
anomaly_iqr_unguarded(series, k2) ==
    LET q1 == quantile(series, 1)
        q3 == quantile(series, 3)
    IN  IF q1 = NaN \/ q3 = NaN
        THEN [i \in DOMAIN series |-> FALSE]
        ELSE LET iqr == q3[2] - q1[2]
                 lower8 == 2 * q1[2] - k2 * iqr
                 upper8 == 2 * q3[2] + k2 * iqr
             IN  [i \in DOMAIN series |->
                     /\ IsNum(series[i])
                     /\ (8 * series[i][2] < lower8 \/ 8 * series[i][2] > upper8)]

anomaly_iqr(series, k2) ==
    LET q1 == quantile(series, 1)
        q3 == quantile(series, 3)
    IN  IF q1 = NaN \/ q3 = NaN \/ q3[2] - q1[2] = 0
        THEN [i \in DOMAIN series |-> FALSE]
        ELSE LET iqr == q3[2] - q1[2]
                 lower8 == 2 * q1[2] - k2 * iqr
                 upper8 == 2 * q3[2] + k2 * iqr
             IN  [i \in DOMAIN series |->
                     /\ IsNum(series[i])
                     /\ (8 * series[i][2] < lower8 \/ 8 * series[i][2] > upper8)]

SeriesValues == {Num(0), Num(2), Num(3), Num(5), NaN}

NumSeq(q) == [i \in DOMAIN q |-> Num(q[i])]

\* the two documented series
DocumentedOutlier == NumSeq(<<10, 12, 11, 13, 9, 50>>)
DocumentedConstant == NumSeq(<<5, 5, 5, 5, 5>>)

InitIqr ==
    /\ pc = "ready"
    /\ model_file = "good"
    /\ model_loaded = "True"
    /\ file = to_csv(<<>>)
    /\ df_storage = <<>>
    /\ last = [op |-> "none", row |-> NoRow, raised |-> FALSE]
    /\ wr = IdleWr
    /\ wk = IdleWk
    /\ \E series \in SeqsUpTo(SeriesValues, MaxSeriesLen)
                        \cup {DocumentedOutlier, DocumentedConstant},
          k2 \in {DefaultK2, 2} :
            an = [pc |-> "called", series |-> series, k2 |-> k2, out |-> <<>>]

CallAnomalyIqr ==
    /\ an.pc = "called"
    /\ an' = [an EXCEPT !.pc = "returned", !.out = anomaly_iqr(an.series, an.k2)]
    /\ UNCHANGED <<pc, model_file, model_loaded, file, df_storage, last, wr, wk>>

NextIqr == CallAnomalyIqr

SpecIqr == InitIqr /\ [][NextIqr]_vars

(* The claims' own statement of the quartiles: the m-th smallest value is   *)
(* the least v with at least m values <= v.                                 *)

Values(series) == { series[i][2] : i \in {j \in DOMAIN series : IsNum(series[j])} }
NValues(series) == Cardinality({j \in DOMAIN series : IsNum(series[j])})

Smallest(series, m) ==
    CHOOSE v \in Values(series) :
        /\ Cardinality({j \in DOMAIN series : IsNum(series[j]) /\ series[j][2] <= v}) >= m
        /\ Cardinality({j \in DOMAIN series : IsNum(series[j]) /\ series[j][2] < v}) < m

\* 4 * (the p4/4 quantile): between the order statistics around (n-1)*p4/4
Quartile4(series, p4) ==
    LET h == (NValues(series) - 1) * p4
        f == h % 4
        lo == Smallest(series, (h \div 4) + 1)
        hi == IF f = 0 THEN lo ELSE Smallest(series, (h \div 4) + 2)
    IN  (4 - f) * lo + f * hi

IqrDefinedNonZero(series) ==
    /\ NValues(series) > 0
    /\ Quartile4(series, 3) # Quartile4(series, 1)

\* C8: with a non-zero IQR, anomaly_iqr returns one flag per value, in order,
\* true exactly for the values strictly below Q1 - k*IQR or strictly above
\* Q3 + k*IQR; of 10, 12, 11, 13, 9, 50 with k = 1.5 only the 50 is flagged.
C8_FlagsOutsideFence ==
    (an.pc = "returned" /\ IqrDefinedNonZero(an.series)) =>
        LET q1 == Quartile4(an.series, 1)
            q3 == Quartile4(an.series, 3)
        IN  /\ DOMAIN an.out = DOMAIN an.series
            /\ \A i \in DOMAIN an.series :
                   an.out[i] <=>
                       /\ IsNum(an.series[i])
                       /\ \/ 8 * an.series[i][2] < 2 * q1 - an.k2 * (q3 - q1)
                          \/ 8 * an.series[i][2] > 2 * q3 + an.k2 * (q3 - q1)
            /\ (an.series = DocumentedOutlier /\ an.k2 = DefaultK2) =>
                   an.out = <<FALSE, FALSE, FALSE, FALSE, FALSE, TRUE>>

\* a value exactly on the upper fence is not flagged, while a larger one is
C8_Witness ==
    /\ an.pc = "returned"
    /\ an.k2 = DefaultK2
    /\ IqrDefinedNonZero(an.series)
    /\ \E i \in DOMAIN an.series :
           /\ IsNum(an.series[i])
           /\ 8 * an.series[i][2] =
                 2 * Quartile4(an.series, 3)
                 + an.k2 * (Quartile4(an.series, 3) - Quartile4(an.series, 1))
           /\ ~an.out[i]

\* C9: with an IQR of zero (a constant series, one value) or none (an empty
\* series), anomaly_iqr returns one flag per value, all false.
C9_DegenerateAllFalse ==
    (an.pc = "returned" /\ ~IqrDefinedNonZero(an.series)) =>
        an.out = [i \in DOMAIN an.series |-> FALSE]

\* a series of zero IQR that still has a value away from the quartiles
C9_Witness ==
    /\ an.pc = "returned"
    /\ ~IqrDefinedNonZero(an.series)
    /\ Cardinality(Values(an.series)) >= 2
    /\ Len(an.out) = Len(an.series)

====
